---- MODULE Spec2Model ----
(***************************************************************************)
(* pngme: the chunk-type tag (ChunkType), the chunk record (Chunk), the    *)
(* container (Png) and the commands that read a file, change the container *)
(* and write it back.                                                      *)
(*                                                                         *)
(* Bytes are integers 0..255.  Text (&str, String) is the sequence of its  *)
(* UTF-8 bytes.  A u32 is the record [hi, lo] of its two 16-bit halves,    *)
(* so that every 32-bit value (a CRC in particular) is representable.      *)
(* A Result is [ok |-> TRUE, val |-> v] or [ok |-> FALSE, err |-> e]; an    *)
(* Option is [some |-> TRUE, val |-> v] or [some |-> FALSE].               *)
(***************************************************************************)
EXTENDS Integers, Sequences, FiniteSets

VARIABLES
    file,       \* commands: the bytes of the png file at `path`
    png,        \* commands: Option of the Png the last command held when it returned
    out,        \* commands: what the last command was given and what it returned
    input,      \* Chunk: the (chunk_type, data) pair given to Chunk::new
    chunk,      \* Chunk: Option of the Chunk built by Chunk::new
    buffer,     \* Chunk: the bytes handed to Chunk::try_from
    parsed,     \* Chunk: Option of the Result of Chunk::try_from(buffer)
    value,      \* ChunkType: the [u8; 4] or &str handed to the constructor
    tag         \* ChunkType: Option of [via, res], the constructor used and its Result

vars == <<file, png, out, input, chunk, buffer, parsed, value, tag>>

(***************************************************************************)
(* Bounds of the model.                                                    *)
(***************************************************************************)
MaxDataLen == 2        \* longest payload given to Chunk::new
MaxStrLen == 5         \* longest text given to ChunkType::from_str
MaxInitChunks == 2     \* most raw records in a file the commands start from
MaxChunks == 3         \* encode is not called on a file holding this many chunks

Ok(v) == [ok |-> TRUE, val |-> v]
Err(e) == [ok |-> FALSE, err |-> e]
Some(v) == [some |-> TRUE, val |-> v]
None == [some |-> FALSE]

\* All sequences over S of length at most n.
SeqsUpTo(S, n) == UNION {[1..k -> S] : k \in 0..n}

Drop(s, n) == SubSeq(s, n + 1, Len(s))
Take(s, n) == SubSeq(s, 1, n)

(***************************************************************************)
(* u32 and its big-endian bytes.                                           *)
(***************************************************************************)
U32(n) == [hi |-> n \div 65536, lo |-> n % 65536]

\* `len as usize` (the length fields of the model's buffers are below 2^31)
AsUsize(u) == u.hi * 65536 + u.lo

\* A mutant of to_be_bytes: the bytes in little-endian order.
to_le_bytes(u) == <<u.lo % 256, u.lo \div 256, u.hi % 256, u.hi \div 256>>

to_be_bytes(u) == <<u.hi \div 256, u.hi % 256, u.lo \div 256, u.lo % 256>>

from_be_bytes(b) == [hi |-> b[1] * 256 + b[2], lo |-> b[3] * 256 + b[4]]

(***************************************************************************)
(* crc32fast::Hasher: CRC-32 (reflected polynomial 0xEDB88320, initial     *)
(* value and final xor 0xFFFFFFFF), a byte at a time through the table,    *)
(* on the 16-bit halves of the register.                                   *)
(***************************************************************************)
RECURSIVE BitXor(_, _)
BitXor(a, b) ==
    IF a = 0 THEN b
    ELSE IF b = 0 THEN a
    ELSE ((a + b) % 2) + 2 * BitXor(a \div 2, b \div 2)

Xor8 == [a \in 0..255 |-> [b \in 0..255 |-> BitXor(a, b)]]

Xor16(x, y) == Xor8[x \div 256][y \div 256] * 256 + Xor8[x % 256][y % 256]

\* One bit of the register: shift right, xor the polynomial in when a 1 falls out.
CrcShift(c) ==
    LET hi == c.hi \div 2
        lo == (c.lo \div 2) + (c.hi % 2) * 32768
    IN  IF c.lo % 2 = 1
        THEN [hi |-> BitXor(hi, 60856), lo |-> BitXor(lo, 33568)]
        ELSE [hi |-> hi, lo |-> lo]

\* n bits of the register.  (The singleton sets bind the register by value.)
RECURSIVE CrcBits(_, _)
CrcBits(c, n) ==
    IF n = 0 THEN c
    ELSE CHOOSE r \in {CrcBits(d, n - 1) : d \in {CrcShift(c)}} : TRUE

CrcTable == [b \in 0..255 |-> CrcBits([hi |-> 0, lo |-> b], 8)]

\* crc = table[(crc ^ b) & 0xFF] ^ (crc >> 8)
CrcByte(c, b) ==
    LET e == CrcTable[Xor8[c.lo % 256][b]]
    IN  [hi |-> Xor16(c.hi \div 256, e.hi),
         lo |-> Xor16((c.lo \div 256) + (c.hi % 256) * 256, e.lo)]

HasherNew == [hi |-> 65535, lo |-> 65535]

RECURSIVE HasherUpdate(_, _)
HasherUpdate(c, bytes) ==
    IF bytes = <<>> THEN c
    ELSE CHOOSE r \in {HasherUpdate(d, Tail(bytes)) : d \in {CrcByte(c, Head(bytes))}} : TRUE

HasherFinalize(c) == [hi |-> 65535 - c.hi, lo |-> 65535 - c.lo]

(***************************************************************************)
(* std::str::from_utf8: Ok(the text) when the bytes are well-formed UTF-8. *)
(***************************************************************************)
IsCont(b) == b \in 128..191

RECURSIVE Utf8Valid(_)
Utf8Valid(b) ==
    IF b = <<>> THEN TRUE
    ELSE LET n == Len(b)
             x == b[1]
         IN  IF x <= 127 THEN Utf8Valid(Drop(b, 1))
             ELSE IF x \in 194..223
                  THEN n >= 2 /\ IsCont(b[2]) /\ Utf8Valid(Drop(b, 2))
             ELSE IF x \in 224..239
                  THEN /\ n >= 3
                       /\ IsCont(b[2]) /\ IsCont(b[3])
                       /\ (x = 224 => b[2] >= 160)
                       /\ (x = 237 => b[2] <= 159)
                       /\ Utf8Valid(Drop(b, 3))
             ELSE IF x \in 240..244
                  THEN /\ n >= 4
                       /\ IsCont(b[2]) /\ IsCont(b[3]) /\ IsCont(b[4])
                       /\ (x = 240 => b[2] >= 144)
                       /\ (x = 244 => b[2] <= 143)
                       /\ Utf8Valid(Drop(b, 4))
             ELSE FALSE

from_utf8(b) == IF Utf8Valid(b) THEN Ok(b) ELSE Err([kind |-> "Utf8Error"])

\* Result::unwrap: the value, or the panic.
unwrap(r) == IF r.ok THEN r.val ELSE "panic"

(***************************************************************************)
(* ChunkType (chunk_type.rs).                                              *)
(***************************************************************************)
\* A mutant of IsLetterByte: one range, 65..=122, with the six bytes between the cases.
IsLetterByteOneRange(val) == 65 <= val /\ val <= 122

\* matches!(val, 65..=90 | 97..=122)
IsLetterByte(val) == (65 <= val /\ val <= 90) \/ (97 <= val /\ val <= 122)

\* The for loop of try_from, from index i (0-based) on.
RECURSIVE TryFromScan(_, _)
TryFromScan(v, i) ==
    IF i >= Len(v) THEN Ok([bytes |-> v])
    ELSE IF ~IsLetterByte(v[i + 1]) THEN Err([index |-> i, value |-> v[i + 1]])
    ELSE TryFromScan(v, i + 1)

\* impl TryFrom<[u8; 4]> for ChunkType
ChunkTypeTryFrom(v) == TryFromScan(v, 0)

\* map_err(|e| ParseChunkTypeError::NotInRange(char::from(e.value)))
NotInRange(r) == IF r.ok THEN r ELSE Err([kind |-> "NotInRange", char |-> r.err.value])

\* impl FromStr for ChunkType
from_str(s) ==
    IF Len(s) # 4 THEN Err([kind |-> "InvalidLength"])
    ELSE NotInRange(ChunkTypeTryFrom(s))

as_slice(t) == t.bytes

as_str(t) == unwrap(from_utf8(t.bytes))

\* (b & 32u8) == 32
Bit5Set(b) == (b \div 32) % 2 = 1

is_critical(t) == ~Bit5Set(t.bytes[1])

is_public(t) == ~Bit5Set(t.bytes[2])

is_reserved_bit_valid(t) == ~Bit5Set(t.bytes[3])

\* A mutant of is_safe_to_copy: the sense of the other three tests.
IsSafeToCopyClear(t) == ~Bit5Set(t.bytes[4])

is_safe_to_copy(t) == Bit5Set(t.bytes[4])

is_valid(t) == is_reserved_bit_valid(t)

(***************************************************************************)
(* Chunk (chunk.rs).                                                       *)
(***************************************************************************)
\* A mutant of calculate_crc: the hasher is not fed the chunk type.
CalculateCrcDataOnly(chunk_type, data) == HasherFinalize(HasherUpdate(HasherNew, data))

calculate_crc(chunk_type, data) ==
    HasherFinalize(HasherUpdate(HasherUpdate(HasherNew, as_slice(chunk_type)), data))

\* Chunk::new
ChunkNew(chunk_type, data) ==
    [len |-> U32(Len(data)),
     chunk_type |-> chunk_type,
     data |-> data,
     crc |-> calculate_crc(chunk_type, data)]

\* A mutant of as_bytes: no crc after an empty payload, as try_from reads none.
ChunkAsBytesNoCrcWhenEmpty(c) ==
    IF c.data = <<>>
    THEN to_be_bytes(c.len) \o as_slice(c.chunk_type)
    ELSE to_be_bytes(c.len) \o as_slice(c.chunk_type) \o c.data \o to_be_bytes(c.crc)

\* Chunk::as_bytes
ChunkAsBytes(c) == to_be_bytes(c.len) \o as_slice(c.chunk_type) \o c.data \o to_be_bytes(c.crc)

data_as_string(c) == from_utf8(c.data)

NotEnoughBytes == Err([kind |-> "NotEnoughBytes"])

\* The end of try_from: the crc computed over the data read against the crc field.
CheckCrc(len, chunk_type, data, crc, crc_given) ==
    IF crc # crc_given
    THEN Err([kind |-> "CorruptCrc", calculated |-> crc, expected |-> crc_given])
    ELSE Ok([len |-> len, chunk_type |-> chunk_type, data |-> data, crc |-> crc])

\* try_from once the data is read: the fourth read_exact, of the crc field.
ReadCrc(bytes, len, chunk_type, data) ==
    IF Len(bytes) - 8 - Len(data) < 4 THEN NotEnoughBytes
    ELSE CheckCrc(len, chunk_type, data, calculate_crc(chunk_type, data),
                  from_be_bytes(SubSeq(bytes, 9 + Len(data), 12 + Len(data))))

\* try_from once the type bytes are read: the type is checked, a chunk of length 0
\* is returned at once, and the third read_exact reads `len` bytes of data.
ReadData(bytes, len, ct) ==
    IF ~ct.ok THEN Err([kind |-> "ChunkType", source |-> ct.err])
    ELSE IF len = U32(0)
         THEN Ok([len |-> len, chunk_type |-> ct.val, data |-> <<>>,
                  crc |-> calculate_crc(ct.val, <<>>)])
    ELSE IF Len(bytes) - 8 < AsUsize(len) THEN NotEnoughBytes
    ELSE ReadCrc(bytes, len, ct.val, SubSeq(bytes, 9, 8 + AsUsize(len)))

\* try_from once the length is read: the second read_exact, of the type bytes.
ReadType(bytes, len) ==
    IF Len(bytes) < 8 THEN NotEnoughBytes
    ELSE ReadData(bytes, len, ChunkTypeTryFrom(SubSeq(bytes, 5, 8)))

\* impl TryFrom<&[u8]> for Chunk: read_exact calls on a reader over `bytes`,
\* the first of them for the length.
ChunkTryFrom(bytes) ==
    IF Len(bytes) < 4 THEN NotEnoughBytes
    ELSE ReadType(bytes, from_be_bytes(SubSeq(bytes, 1, 4)))

(***************************************************************************)
(* Png (png.rs): the container, an ordered sequence of chunks behind the    *)
(* 8-byte signature.                                                       *)
(***************************************************************************)
STANDARD_HEADER == <<137, 80, 78, 71, 13, 10, 26, 10>>

\* The chunks read so far, followed by the chunks of the rest of the buffer.
Prepend(c, more) == IF ~more.ok THEN more ELSE Ok(<<c>> \o more.val)

\* Chunks are read back to back until the buffer is exhausted; the first
\* error ends the parse, and so does a buffer that ends inside a chunk.
RECURSIVE ReadChunks(_)
ReadNext(rest, c) ==
    IF ~c.ok THEN Err([kind |-> "Chunk", source |-> c.err])
    ELSE IF Len(rest) < 12 + AsUsize(c.val.len)
         THEN Err([kind |-> "Chunk", source |-> NotEnoughBytes.err])
    ELSE Prepend(c.val, ReadChunks(Drop(rest, 12 + AsUsize(c.val.len))))

ReadChunks(rest) == IF rest = <<>> THEN Ok(<<>>) ELSE ReadNext(rest, ChunkTryFrom(rest))

FromChunks(cs) == IF ~cs.ok THEN cs ELSE Ok([chunks |-> cs.val])

\* impl TryFrom<&[u8]> for Png
PngTryFrom(bytes) ==
    IF Len(bytes) < 8 \/ Take(bytes, 8) # STANDARD_HEADER
    THEN Err([kind |-> "BadSignature"])
    ELSE FromChunks(ReadChunks(Drop(bytes, 8)))

append_chunk(p, c) == [chunks |-> Append(p.chunks, c)]

\* The index of the first chunk whose type reads `chunk_type`, 0 when there is none.
RECURSIVE Position(_, _, _)
Position(cs, chunk_type, i) ==
    IF i > Len(cs) THEN 0
    ELSE IF as_str(cs[i].chunk_type) = chunk_type THEN i
    ELSE Position(cs, chunk_type, i + 1)

ChunkAt(p, i) == IF i = 0 THEN None ELSE Some(p.chunks[i])

chunk_by_type(p, chunk_type) == ChunkAt(p, Position(p.chunks, chunk_type, 1))

\* The Result of the call and the Png it leaves.
RemoveAt(p, i) ==
    IF i = 0
    THEN [res |-> Err([kind |-> "ChunkNotFound"]), png |-> p]
    ELSE [res |-> Ok(p.chunks[i]),
          png |-> [chunks |-> Take(p.chunks, i - 1) \o Drop(p.chunks, i)]]

remove_first_chunk(p, chunk_type) == RemoveAt(p, Position(p.chunks, chunk_type, 1))

RECURSIVE ConcatBytes(_)
ConcatBytes(cs) ==
    IF cs = <<>> THEN <<>> ELSE ChunkAsBytes(Head(cs)) \o ConcatBytes(Tail(cs))

\* Png::as_bytes
PngAsBytes(p) == STANDARD_HEADER \o ConcatBytes(p.chunks)

(***************************************************************************)
(* commands.rs.  Each command is given the contents of the file at `path`  *)
(* and returns [file, png, res, found]: the contents it leaves, the Png it *)
(* held when it returned, its Result, and the chunk it looked up.          *)
(***************************************************************************)
\* impl From<png::TryFromSliceError> for ReadPngError
ReadPngError(r) == IF r.ok THEN r ELSE Err([kind |-> "Png", source |-> r.err])

read_png(contents) == ReadPngError(PngTryFrom(contents))

\* A command that returns at `read_png(path)?`.
Unread(contents, r) == [file |-> contents, png |-> None, res |-> r, found |-> None]

\* fs::write(path, png.as_bytes())
Written(p, found) == [file |-> PngAsBytes(p), png |-> Some(p), res |-> Ok(<<>>), found |-> found]

\* encode after read_png: r is the Png read, t the chunk type parsed.
EncodeRead(contents, r, t, message) ==
    IF ~r.ok THEN Unread(contents, r)
    ELSE IF ~t.ok
         THEN [file |-> contents, png |-> Some(r.val), res |-> Err(t.err), found |-> None]
    ELSE Written(append_chunk(r.val, ChunkNew(t.val, message)), None)

encode(contents, chunk_type, message) ==
    EncodeRead(contents, read_png(contents), from_str(chunk_type), message)

\* decode once the chunk is looked up: the message is printed when it is text.
DecodeFound(contents, p, c) ==
    IF c.some /\ ~data_as_string(c.val).ok
    THEN [file |-> contents, png |-> Some(p), res |-> Err(data_as_string(c.val).err),
          found |-> c]
    ELSE [file |-> contents, png |-> Some(p), res |-> Ok(<<>>), found |-> c]

DecodeRead(contents, r, chunk_type) ==
    IF ~r.ok THEN Unread(contents, r)
    ELSE DecodeFound(contents, r.val, chunk_by_type(r.val, chunk_type))

decode(contents, chunk_type) == DecodeRead(contents, read_png(contents), chunk_type)

\* A mutant of RemoveDone: the Result of remove_first_chunk is dropped, not returned.
RemoveDoneUnchecked(contents, d) == Written(d.png, IF d.res.ok THEN Some(d.res.val) ELSE None)

\* A mutant of RemoveDone: the file is not written after the chunk is removed.
RemoveDoneUnwritten(contents, d) ==
    IF ~d.res.ok
    THEN [file |-> contents, png |-> Some(d.png), res |-> d.res, found |-> None]
    ELSE [file |-> contents, png |-> Some(d.png), res |-> Ok(<<>>), found |-> Some(d.res.val)]

\* remove after `png.remove_first_chunk(chunk_type)?`: the file is written on Ok only.
RemoveDone(contents, d) ==
    IF ~d.res.ok
    THEN [file |-> contents, png |-> Some(d.png), res |-> d.res, found |-> None]
    ELSE Written(d.png, Some(d.res.val))

RemoveRead(contents, r, chunk_type) ==
    IF ~r.ok THEN Unread(contents, r)
    ELSE RemoveDone(contents, remove_first_chunk(r.val, chunk_type))

remove(contents, chunk_type) == RemoveRead(contents, read_png(contents), chunk_type)

PrintRead(contents, r) ==
    IF ~r.ok THEN Unread(contents, r)
    ELSE [file |-> contents, png |-> Some(r.val), res |-> Ok(<<>>), found |-> None]

print(contents) == PrintRead(contents, read_png(contents))

(***************************************************************************)
(* The inputs the specifications draw from.                                *)
(***************************************************************************)
RuSt == <<82, 117, 83, 116>>
Rust == <<82, 117, 115, 116>>
teXt == <<116, 101, 88, 116>>
Ru1t == <<82, 117, 49, 116>>
abc == <<97, 98, 99>>

\* Bytes around the edges of the two letter ranges, and bytes far from them.
TagByteSamples == {0, 49, 64, 65, 90, 91, 96, 97, 122, 123, 255}
StrByteSamples == {49, 65, 91, 122}
DataByteSamples == {0, 104, 255}

ChunkTypeInputs ==
    [1..4 -> TagByteSamples] \cup SeqsUpTo(StrByteSamples, MaxStrLen)
        \cup {RuSt, Rust, teXt, Ru1t, abc}

ChunkInputs ==
    {[chunk_type |-> from_str(t).val, data |-> d] :
        t \in {RuSt, Rust, teXt}, d \in SeqsUpTo(DataByteSamples, MaxDataLen)}

\* The byte `b` with bit `j` flipped.
FlipBit(b, j) == Xor8[b][2 ^ j]

\* `bytes` with bit `bit` (0..31, 0 the lowest) of its last four bytes flipped.
FlipCrcBit(bytes, bit) ==
    LET i == Len(bytes) - (bit \div 8)
    IN  [bytes EXCEPT ![i] = FlipBit(bytes[i], bit % 8)]

\* The texts and messages the commands are called with.
ChunkTypeArgs == {RuSt, teXt, Ru1t, abc}
Messages == {<<>>, <<104>>}

\* Records a file may hold: written by Chunk::as_bytes, or written by anything else.
WellFormedRecords ==
    {ChunkAsBytes(ChunkNew(from_str(RuSt).val, <<>>)),
     ChunkAsBytes(ChunkNew(from_str(RuSt).val, <<104>>)),
     ChunkAsBytes(ChunkNew(from_str(teXt).val, <<104>>)),
     ChunkAsBytes(ChunkNew(from_str(teXt).val, <<255>>))}

OtherRecords ==
    {FlipCrcBit(ChunkAsBytes(ChunkNew(from_str(RuSt).val, <<>>)), 0),
     FlipCrcBit(ChunkAsBytes(ChunkNew(from_str(teXt).val, <<104>>)), 9),
     Take(ChunkAsBytes(ChunkNew(from_str(RuSt).val, <<104>>)), 10),
     <<0, 0, 0, 0>> \o Ru1t \o <<0, 0, 0, 0>>}

RECURSIVE Flatten(_)
Flatten(ss) == IF ss = <<>> THEN <<>> ELSE Head(ss) \o Flatten(Tail(ss))

InitFiles ==
    {STANDARD_HEADER \o Flatten(rs) :
        rs \in SeqsUpTo(WellFormedRecords \cup OtherRecords, MaxInitChunks)}
        \cup {<<>>, <<137, 80, 78, 71>>, <<0, 80, 78, 71, 13, 10, 26, 10>>}

(***************************************************************************)
(* ChunkType: a constructor is applied to an input.                        *)
(***************************************************************************)
CommandsIdle == file = <<>> /\ png = None /\ out = [cmd |-> "none"]
ChunkIdle == input = None /\ chunk = None /\ buffer = <<>> /\ parsed = None
ChunkTypeIdle == value = <<>> /\ tag = None

InitChunkType ==
    /\ value \in ChunkTypeInputs
    /\ tag = None
    /\ CommandsIdle
    /\ ChunkIdle

TryFromBytes ==
    /\ tag = None
    /\ Len(value) = 4
    /\ tag' = Some([via |-> "try_from", res |-> ChunkTypeTryFrom(value)])
    /\ UNCHANGED <<file, png, out, input, chunk, buffer, parsed, value>>

FromStr ==
    /\ tag = None
    /\ Utf8Valid(value)
    /\ tag' = Some([via |-> "from_str", res |-> from_str(value)])
    /\ UNCHANGED <<file, png, out, input, chunk, buffer, parsed, value>>

NextChunkType == TryFromBytes \/ FromStr

SpecChunkType == InitChunkType /\ [][NextChunkType]_vars

(***************************************************************************)
(* Chunk: a chunk is built, serialized, and its bytes (as written, with a  *)
(* bit of the crc field flipped, or cut short) are parsed.                 *)
(***************************************************************************)
InitChunk ==
    /\ input \in {Some(i) : i \in ChunkInputs}
    /\ chunk = None
    /\ buffer = <<>>
    /\ parsed = None
    /\ CommandsIdle
    /\ ChunkTypeIdle

New ==
    /\ chunk = None
    /\ chunk' = Some(ChunkNew(input.val.chunk_type, input.val.data))
    /\ UNCHANGED <<file, png, out, input, buffer, parsed, value, tag>>

TryFromSerialized ==
    /\ chunk.some /\ parsed = None
    /\ buffer' = ChunkAsBytes(chunk.val)
    /\ parsed' = Some([of |-> "as_bytes", res |-> ChunkTryFrom(buffer')])
    /\ UNCHANGED <<file, png, out, input, chunk, value, tag>>

TryFromFlipped ==
    /\ chunk.some /\ parsed = None
    /\ \E bit \in 0..31 :
        /\ buffer' = FlipCrcBit(ChunkAsBytes(chunk.val), bit)
        /\ parsed' = Some([of |-> "flipped", res |-> ChunkTryFrom(buffer')])
    /\ UNCHANGED <<file, png, out, input, chunk, value, tag>>

TryFromTruncated ==
    /\ chunk.some /\ parsed = None
    /\ \E k \in 0..(Len(ChunkAsBytes(chunk.val)) - 1) :
        /\ buffer' = Take(ChunkAsBytes(chunk.val), k)
        /\ parsed' = Some([of |-> "truncated", res |-> ChunkTryFrom(buffer')])
    /\ UNCHANGED <<file, png, out, input, chunk, value, tag>>

NextChunk == New \/ TryFromSerialized \/ TryFromFlipped \/ TryFromTruncated

SpecChunk == InitChunk /\ [][NextChunk]_vars

(***************************************************************************)
(* The commands, run one after another on the same file.                   *)
(***************************************************************************)
Init ==
    /\ file \in InitFiles
    /\ png = None
    /\ out = [cmd |-> "none"]
    /\ ChunkIdle
    /\ ChunkTypeIdle

Returned(cmd, chunk_type, message, r) ==
    /\ file' = r.file
    /\ png' = r.png
    /\ out' = [cmd |-> cmd, chunk_type |-> chunk_type, message |-> message,
               before |-> file, res |-> r.res, found |-> r.found]
    /\ UNCHANGED <<input, chunk, buffer, parsed, value, tag>>

Encode ==
    /\ PngTryFrom(file).ok => Len(PngTryFrom(file).val.chunks) < MaxChunks
    /\ \E chunk_type \in ChunkTypeArgs, message \in Messages :
        Returned("encode", chunk_type, message, encode(file, chunk_type, message))

Decode ==
    \E chunk_type \in ChunkTypeArgs :
        Returned("decode", chunk_type, <<>>, decode(file, chunk_type))

Remove ==
    \E chunk_type \in ChunkTypeArgs :
        Returned("remove", chunk_type, <<>>, remove(file, chunk_type))

PrintChunks == Returned("print", <<>>, <<>>, print(file))

Next == Encode \/ Decode \/ Remove \/ PrintChunks

Spec == Init /\ [][Next]_vars

(***************************************************************************)
(* The properties.                                                         *)
(***************************************************************************)
Upper == 65..90
Lower == 97..122
Letters == Upper \cup Lower

\* The 1-based places of the bytes of v that are not ASCII letters.
NonLetters(v) == {i \in 1..Len(v) : v[i] \notin Letters}

Min(S) == CHOOSE m \in S : \A n \in S : m <= n

\* The CRC-32 of one run of bytes.
Crc32(bytes) == HasherFinalize(HasherUpdate(HasherNew, bytes))

\* The chunks of the Png in the file the last command was given.
Before == PngTryFrom(out.before).val

\* The places in cs of the chunks whose type reads `text`.
Matches(cs, text) == {i \in 1..Len(cs) : cs[i].chunk_type.bytes = text}

\* s is cs with its m-th element taken out, the rest in order.
Without(s, cs, m) ==
    /\ Len(s) = Len(cs) - 1
    /\ \A i \in 1..Len(s) : s[i] = IF i < m THEN cs[i] ELSE cs[i + 1]

\* C1: whenever a buffer parses as a Png, serializing the Png parsed gives the
\* buffer back byte for byte.  Stated of print, which parses the file and changes
\* nothing: the Png it holds serializes to the file it read.
C1_ParseThenSerialize ==
    (out.cmd = "print" /\ out.res.ok) => PngAsBytes(png.val) = out.before

\* C2: a serialized chunk with one bit of its crc field flipped does not parse:
\* try_from fails with CorruptCrc, whatever the payload, the empty one included.
C2_FlippedCrcRejected ==
    (parsed.some /\ parsed.val.of = "flipped") =>
        (~parsed.val.res.ok /\ parsed.val.res.err.kind = "CorruptCrc")

\* C3: no proper prefix of a serialized chunk parses: try_from fails with
\* NotEnoughBytes on every one of them, whatever the payload, the empty one included.
C3_PrefixRejected ==
    (parsed.some /\ parsed.val.of = "truncated") =>
        (~parsed.val.res.ok /\ parsed.val.res.err.kind = "NotEnoughBytes")

\* C4: the Png a command holds after reading the file and appending or removing
\* (or failing to) serializes to bytes that parse back to the same chunks, in order.
C4_SerializeThenParse ==
    png.some => PngTryFrom(PngAsBytes(png.val)) = Ok(png.val)

C4_Witness ==
    /\ out.cmd = "encode" /\ out.res.ok
    /\ \E i, j \in 1..Len(png.val.chunks) :
        /\ i < j
        /\ png.val.chunks[i].chunk_type = png.val.chunks[j].chunk_type
        /\ png.val.chunks[j].data = <<>>

\* C5: parsing the bytes of a new chunk gives a chunk equal to it in every field,
\* and the bytes are the big-endian length, the type, the data and the big-endian
\* crc, 12 + |data| bytes in all.
C5_NewAsBytesTryFrom ==
    (parsed.some /\ parsed.val.of = "as_bytes") =>
        LET c == chunk.val
            n == Len(input.val.data)
        IN  /\ parsed.val.res = Ok(c)
            /\ c.chunk_type = input.val.chunk_type /\ c.data = input.val.data
            /\ Len(buffer) = 12 + n
            /\ buffer[1] * 16777216 + buffer[2] * 65536 + buffer[3] * 256 + buffer[4] = n
            /\ SubSeq(buffer, 5, 8) = input.val.chunk_type.bytes
            /\ SubSeq(buffer, 9, 8 + n) = input.val.data
            /\ buffer[9 + n] * 256 + buffer[10 + n] = c.crc.hi
            /\ buffer[11 + n] * 256 + buffer[12 + n] = c.crc.lo

C5_Witness ==
    /\ parsed.some /\ parsed.val.of = "as_bytes" /\ parsed.val.res.ok
    /\ Len(parsed.val.res.val.data) = 2
    /\ Len(buffer) = 14

\* C6: remove with a text that no chunk's type reads fails with ChunkNotFound,
\* leaves the Png as it was read and does not write the file.
C6_RemoveNoMatch ==
    (/\ out.cmd = "remove"
     /\ PngTryFrom(out.before).ok
     /\ Matches(Before.chunks, out.chunk_type) = {}) =>
        /\ out.res = Err([kind |-> "ChunkNotFound"])
        /\ png = Some(Before)
        /\ PngAsBytes(png.val) = PngAsBytes(Before)
        /\ file = out.before

C6_Witness ==
    /\ out.cmd = "remove"
    /\ out.chunk_type = abc
    /\ ~out.res.ok /\ out.res.err.kind = "ChunkNotFound"
    /\ Len(png.val.chunks) >= 2

\* C7: try_from on 4 bytes succeeds exactly when all four are ASCII letters; a
\* failure carries the place and the value of the leftmost byte that is not; on
\* success as_str gives the 4 bytes back; from_str on a 4-byte text succeeds on
\* exactly the same inputs.
C7_LettersOnly ==
    tag.some =>
        LET r == tag.val.res
            bad == NonLetters(value)
        IN  /\ tag.val.via = "try_from" =>
                /\ r.ok <=> (bad = {})
                /\ ~r.ok => (r.err.index + 1 = Min(bad) /\ r.err.value = value[Min(bad)])
                /\ r.ok => as_str(r.val) = value
            /\ (tag.val.via = "from_str" /\ Len(value) = 4) => (r.ok <=> (bad = {}))

C7_Witness ==
    /\ tag.some /\ tag.val.via = "try_from"
    /\ ~tag.val.res.ok
    /\ tag.val.res.err = [index |-> 1, value |-> 91]
    /\ value[4] = 0

\* C8: on a ChunkType that was constructed, the four bit tests agree with the case
\* of the letters: critical iff byte 0 is uppercase, public iff byte 1 is, reserved
\* bit valid iff byte 2 is, safe to copy iff byte 3 is lowercase; and is_valid is
\* is_reserved_bit_valid.
C8_BitsAreCase ==
    (tag.some /\ tag.val.res.ok) =>
        LET t == tag.val.res.val
        IN  /\ is_critical(t) <=> (t.bytes[1] \in Upper)
            /\ is_public(t) <=> (t.bytes[2] \in Upper)
            /\ is_reserved_bit_valid(t) <=> (t.bytes[3] \in Upper)
            /\ is_safe_to_copy(t) <=> (t.bytes[4] \in Lower)
            /\ is_valid(t) <=> (t.bytes[3] \in Upper)

C8_Witness ==
    /\ tag.some /\ tag.val.via = "from_str" /\ tag.val.res.ok
    /\ value = Rust
    /\ ~is_valid(tag.val.res.val)
    /\ is_critical(tag.val.res.val)

\* C9: remove with a text that some chunk's type reads takes out exactly the first
\* such chunk, which is the one chunk_by_type finds, and leaves the others in
\* order, in the Png and in the file written; decode changes neither.
C9_RemoveFirstMatch ==
    /\ (/\ out.cmd = "remove"
        /\ PngTryFrom(out.before).ok
        /\ Matches(Before.chunks, out.chunk_type) # {}) =>
            LET m == Min(Matches(Before.chunks, out.chunk_type))
            IN  /\ out.res.ok
                /\ out.found = Some(Before.chunks[m])
                /\ chunk_by_type(Before, out.chunk_type) = Some(Before.chunks[m])
                /\ Without(png.val.chunks, Before.chunks, m)
                /\ PngTryFrom(file) = Ok(png.val)
    /\ (out.cmd = "decode" /\ PngTryFrom(out.before).ok) =>
            /\ file = out.before
            /\ png = Some(Before)
            /\ out.found.some <=> (Matches(Before.chunks, out.chunk_type) # {})
            /\ out.found.some =>
                out.found.val = Before.chunks[Min(Matches(Before.chunks, out.chunk_type))]

C9_Witness ==
    /\ out.cmd = "remove" /\ out.res.ok
    /\ Min(Matches(Before.chunks, out.chunk_type)) = 2
    /\ Len(png.val.chunks) = 2
    /\ png.val.chunks[2].chunk_type.bytes = out.chunk_type
    /\ png.val.chunks[2] # out.found.val

\* C10: every chunk a Png holds, and every chunk a command looked up or took out,
\* has len equal to the number of its data bytes and crc equal to the CRC-32 of
\* its type bytes followed by its data bytes.
ChunkInvariant(c) ==
    /\ c.len = [hi |-> 0, lo |-> Len(c.data)]
    /\ c.crc = Crc32(c.chunk_type.bytes \o c.data)

C10_LenAndCrc ==
    /\ png.some => \A i \in 1..Len(png.val.chunks) : ChunkInvariant(png.val.chunks[i])
    /\ (out.cmd # "none" /\ out.found.some) => ChunkInvariant(out.found.val)

\* A chunk of length 0 was read from a file whose crc field for it is not its crc,
\* and a chunk was made by Chunk::new and appended after it.
C10_Witness ==
    /\ out.cmd = "encode" /\ out.res.ok
    /\ Len(png.val.chunks) >= 2
    /\ png.val.chunks[1].data = <<>>
    /\ SubSeq(out.before, 17, 20) # SubSeq(file, 17, 20)

====
